---- MODULE Spec2Model ----
(***************************************************************************)
(* SpotifyConnection (src/classes/SpotifyConnection.ts): an authorized     *)
(* connection that owns an access token and a refresh token, verifies      *)
(* itself on construction, fetches the user profile and fetches audio      *)
(* features in buckets.  src/unnamed/part_000 is an earlier revision of    *)
(* the same class whose establish goes through verify().                   *)
(*                                                                         *)
(* One action is one run-to-completion segment of the JavaScript event     *)
(* loop: the code between two awaits runs atomically, and the only thing   *)
(* that happens in between is the remote side answering a request.         *)
(***************************************************************************)
EXTENDS Integers, Sequences, FiniteSets, TLC

(* ------------------------------- bounds -------------------------------- *)
\* how many times the caller calls the public tryRefresh on a connection
MaxRefreshes == 2
\* how many times the caller calls fetchUserProfile on a returned connection
MaxProfileCalls == 2
\* the longest ID list handed to fetchAudioFeatures
MaxIds == 250
\* the largest number of playlists the user has at the remote API
MaxTotal == 3
\* the largest page size a caller passes instead of the default
MaxPerPage == 3
\* how many page requests are made through one Paged container
MaxPageRequests == 4

(* ------------------------------ variables ------------------------------ *)
VARIABLES
    accessToken,     \* SpotifyConnection._accessToken
    refreshToken,    \* SpotifyConnection.refreshToken
    est,             \* the establish / reestablish / (part_000) establish call
    profile,         \* the get call made by fetchUserProfile
    refresh,         \* the request of tryRefresh (or of verify in part_000)
    bulk,            \* the fetchAudioFeatures call
    chunks,          \* the get calls of fetchAudioFeaturesOfBucket, by bucket index
    order,           \* bucket indices in the order their requests were answered
    validTokens,     \* remote API: the access tokens it accepts at present
    refreshValid,    \* refresh endpoint: whether it accepts the refresh token
    healthy,         \* remote side: TRUE when it never fails for another reason
    issued,          \* refresh endpoint: number of access tokens handed out
    apiLog,          \* Authorization values of all requests sent to the remote API
    writes,          \* values assigned to _accessToken by a refresh, in order
    notified,        \* arguments of the onAccessTokenChange calls, in order
    onProfileCalls,  \* number of onGettingUserProfile calls
    userCalls,       \* number of fetchUserProfile calls made by the caller
    paged,           \* the Paged container returned by fetchUserPlaylists
    pageCalls,       \* the fetchNext / fetchAll call of each caller
    pageLog,         \* the page requests of the container, in the order sent
    remoteTotal,     \* remote API: the number of playlists the user has
    overlapped       \* TRUE once a page request was sent during another one

vars == <<accessToken, refreshToken, est, profile, refresh, bulk, chunks, order,
          validTokens, refreshValid, healthy, issued, apiLog, writes, notified,
          onProfileCalls, userCalls, paged, pageCalls, pageLog, remoteTotal,
          overlapped>>

connVars == <<accessToken, refreshToken>>
bulkVars == <<bulk, chunks, order>>
serverVars == <<validTokens, refreshValid, healthy, issued>>
pagedVars == <<paged, pageCalls, pageLog, remoteTotal, overlapped>>

(* ------------------------------- tokens -------------------------------- *)
\* '' : the placeholder reestablish constructs the connection with
EmptyToken == <<>>
\* the fields of a connection that has not been constructed yet
Undefined == <<"undefined">>
\* the access token the caller hands to establish (it may also hand '')
CallerToken == <<"access", 0>>
\* response.data.access_token of the k-th successful refresh
IssuedToken(k) == <<"access", k>>
\* the refresh token the caller hands to establish / reestablish
CallerRefreshToken == <<"refresh", 0>>

(* --------------------------- remote answers ---------------------------- *)
\* a response with a status and a body; <<>> stands for a body nobody reads
RespData(s, d) == [response |-> TRUE, status |-> s, data |-> d]
Resp(s) == RespData(s, <<>>)
\* a transport failure: the request is rejected without any response
NoResp == [response |-> FALSE, status |-> 0, data |-> <<>>]

\* failures that have nothing to do with the tokens
Faults == IF healthy THEN {} ELSE {Resp(500), NoResp}

\* what the remote API may answer to a request carrying Authorization: Bearer t
ApiAnswers(t) ==
    IF t \in validTokens
    THEN {Resp(200)} \cup (IF healthy THEN {} ELSE {Resp(204)}) \cup Faults
    ELSE {Resp(401)} \cup Faults

\* what /api/refresh may answer; a 200 carries {access_token: <a new token>}
RefreshAnswers ==
    IF refreshValid
    THEN {RespData(200, IssuedToken(issued + 1))}
         \cup (IF healthy THEN {} ELSE {Resp(204)}) \cup Faults
    ELSE {Resp(400)} \cup Faults

\* the remote side of a refresh answered with a: a 200 hands out a new token,
\* which the remote API accepts from then on
RefreshServed(a) ==
    IF a.response /\ a.status = 200
    THEN /\ issued' = issued + 1
         /\ validTokens' = validTokens \cup {a.data}
    ELSE UNCHANGED <<issued, validTokens>>

(* ----------------------------- settlements ----------------------------- *)
\* a settled promise: fulfilled with a {data, status}, or rejected with what
\* was thrown
Fulfilled(s) ==
    [ok |-> TRUE, thrown |-> "nothing", isAxiosError |-> FALSE,
     hasResponse |-> TRUE, status |-> s]
Rejected(what, isAxios, hasResp, s) ==
    [ok |-> FALSE, thrown |-> what, isAxiosError |-> isAxios,
     hasResponse |-> hasResp, status |-> s]
Pending ==
    [ok |-> FALSE, thrown |-> "pending", isAxiosError |-> FALSE,
     hasResponse |-> FALSE, status |-> 0]

\* axios(...): resolves on a 2xx status (the default validateStatus) and
\* rejects with an AxiosError otherwise; the error carries the response when
\* there is one
axios(a) ==
    IF a.response /\ a.status >= 200 /\ a.status < 300
    THEN Fulfilled(a.status)
    ELSE Rejected("AxiosError", TRUE, a.response, a.status)

\* a fetch that builds the header from the refresh token
fetchSendsRefreshToken(token) == [auth |-> refreshToken]

\* a fetch that builds the header from a part of the stored token
fetchTorn(token) == [auth |-> SubSeq(token, 1, Len(token) - 1)]

\* fetch: builds the Authorization header from the stored token and sends the
\* request; the value is the request as sent
fetch(token) == [auth |-> token]

\* a get call that has not been made
NoCall ==
    [pc |-> "idle", auth |-> Undefined, sent |-> 0, refreshes |-> 0,
     first |-> NoResp, outcome |-> Pending, result |-> Pending]

\* get, up to its first suspension: calls fetch, which sends the request
getCall(token) ==
    [pc |-> "awaiting", auth |-> fetch(token).auth, sent |-> 1, refreshes |-> 0,
     first |-> NoResp, outcome |-> Pending, result |-> Pending]

\* a get that sends its request again whenever it fails
getResends(call, a) ==
    [call EXCEPT !.pc = IF axios(a).ok THEN "fulfilled" ELSE "awaiting",
                 !.sent = IF axios(a).ok THEN call.sent ELSE 2,
                 !.first = a,
                 !.outcome = axios(a)]

\* get, when its request is answered with a.  `return this.fetch(...)` hands
\* the promise of fetch back without awaiting it inside the try block, so the
\* promise of get settles exactly as the promise of fetch does and the catch
\* clause (refresh, onAccessTokenChange, retry) is never entered.
get(call, a) ==
    [call EXCEPT !.pc = IF axios(a).ok THEN "fulfilled" ELSE "rejected",
                 !.first = a,
                 !.outcome = axios(a)]

\* fetchUserProfile without `if (status !== 200) throw status`
fetchUserProfileUnchecked(o) == o

\* fetchUserProfile, after its get call has settled with outcome o
fetchUserProfile(o) ==
    IF ~o.ok THEN o
    ELSE IF o.status # 200 THEN Rejected("status", FALSE, FALSE, o.status)
    ELSE o

\* tryRefresh without `if (response.status !== 200) throw response`
tryRefreshUnchecked(a) ==
    IF ~axios(a).ok THEN axios(a) ELSE Fulfilled(a.status)

\* tryRefresh, when its request is answered with a: the promise it returns
tryRefresh(a) ==
    IF ~axios(a).ok THEN axios(a)
    ELSE IF a.status # 200 THEN Rejected("response", FALSE, TRUE, a.status)
    ELSE Fulfilled(a.status)

\* the request of a refresh: who made it, the answer and how it settled
NoRefresh == [pc |-> "idle", by |-> "nobody", answer |-> NoResp, outcome |-> Pending]
RefreshSent(who) ==
    [pc |-> "awaiting", by |-> who, answer |-> NoResp, outcome |-> Pending]
RefreshSettled(r, a, o) ==
    [r EXCEPT !.pc = IF o.ok THEN "fulfilled" ELSE "rejected",
              !.answer = a, !.outcome = o]

(* ------------------------------- Init ---------------------------------- *)
NoBulk == [pc |-> "idle", ids |-> <<>>, buckets |-> <<>>, result |-> <<>>,
           outcome |-> Pending]

\* the handler invocations that may hold the same Paged container at a time
Callers == {1, 2}

\* no container yet: playlistContainer === undefined
NoPaged ==
    [pc |-> "none", pageSize |-> 0, fetchedItems |-> <<>>, totalKnown |-> FALSE,
     total |-> 0, nextOffset |-> 0]

\* a fetchNext / fetchAll call that has not been made
NoPageCall ==
    [op |-> "none", pc |-> "idle", limit |-> 0, offset |-> 0, entry |-> 0,
     get |-> NoCall, outcome |-> Pending, returned |-> <<>>]

Init ==
    /\ paged = NoPaged
    /\ pageCalls = [c \in Callers |-> NoPageCall]
    /\ pageLog = <<>>
    /\ remoteTotal = 0
    /\ overlapped = FALSE
    /\ accessToken = Undefined
    /\ refreshToken = Undefined
    /\ est = [kind |-> "none", pc |-> "none", outcome |-> Pending]
    /\ profile = NoCall
    /\ refresh = NoRefresh
    /\ bulk = NoBulk
    /\ chunks = <<>>
    /\ order = <<>>
    /\ validTokens \in {{}, {CallerToken}}
    /\ refreshValid \in BOOLEAN
    /\ healthy \in BOOLEAN
    /\ issued = 0
    /\ apiLog = <<>>
    /\ writes = <<>>
    /\ notified = <<>>
    /\ onProfileCalls = 0
    /\ userCalls = 0

(* --------------------------- establishment ----------------------------- *)
EstState(kind, pc, o) == [kind |-> kind, pc |-> pc, outcome |-> o]

\* establish: constructs the connection and calls fetchUserProfile, which
\* runs up to the request of get
Establish ==
    /\ est.pc = "none"
    /\ \E tok \in {CallerToken, EmptyToken} : accessToken' = tok
    /\ refreshToken' = CallerRefreshToken
    /\ profile' = getCall(accessToken')
    /\ apiLog' = Append(apiLog, profile'.auth)
    /\ est' = EstState("establish", "verifying", Pending)
    /\ UNCHANGED <<refresh, bulkVars, serverVars, writes, notified,
                   onProfileCalls, userCalls>>
    /\ UNCHANGED pagedVars

\* reestablish: constructs the connection with '' and calls tryRefresh, which
\* runs up to its request
Reestablish ==
    /\ est.pc = "none"
    /\ accessToken' = EmptyToken
    /\ refreshToken' = CallerRefreshToken
    /\ refresh' = RefreshSent("reestablish")
    /\ est' = EstState("reestablish", "refreshing", Pending)
    /\ UNCHANGED <<profile, bulkVars, serverVars, apiLog, writes, notified,
                   onProfileCalls, userCalls>>
    /\ UNCHANGED pagedVars

\* reestablish resumes when the request of tryRefresh is answered: tryRefresh
\* stores the token of a 200 answer, and reestablish goes on to
\* fetchUserProfile; any other answer makes tryRefresh and reestablish reject
ReestablishRefreshed ==
    /\ est.kind = "reestablish" /\ est.pc = "refreshing"
    /\ refresh.pc = "awaiting"
    /\ \E a \in RefreshAnswers :
         LET r == tryRefresh(a) IN
         /\ RefreshServed(a)
         /\ refresh' = RefreshSettled(refresh, a, r)
         /\ IF r.ok
            THEN /\ accessToken' = a.data
                 /\ writes' = Append(writes, a.data)
                 /\ profile' = getCall(accessToken')
                 /\ apiLog' = Append(apiLog, profile'.auth)
                 /\ est' = EstState("reestablish", "verifying", Pending)
            ELSE /\ est' = EstState("reestablish", "failed", r)
                 /\ UNCHANGED <<accessToken, writes, profile, apiLog>>
    /\ UNCHANGED <<refreshToken, bulkVars, refreshValid, healthy, notified,
                   onProfileCalls, userCalls>>
    /\ UNCHANGED pagedVars

\* establish / reestablish resume when the verification request is answered:
\* onGettingUserProfile runs with the profile and the connection is returned,
\* or the rejection of fetchUserProfile is the rejection of the constructor
Verified ==
    /\ est.kind \in {"establish", "reestablish"} /\ est.pc = "verifying"
    /\ profile.pc = "awaiting"
    /\ \E a \in ApiAnswers(profile.auth) :
         LET g == get(profile, a)
             r == fetchUserProfile(g.outcome) IN
         /\ profile' = [g EXCEPT !.result = r]
         /\ IF r.ok
            THEN /\ onProfileCalls' = onProfileCalls + 1
                 /\ est' = EstState(est.kind, "returned", r)
            ELSE /\ est' = EstState(est.kind, "failed", r)
                 /\ UNCHANGED onProfileCalls
    /\ UNCHANGED <<connVars, refresh, bulkVars, serverVars, apiLog, writes,
                   notified, userCalls>>
    /\ UNCHANGED pagedVars

(* ------------------ establish of part_000, via verify ------------------ *)
\* establish of part_000: constructs the connection and calls verify, which
\* calls fetchUserProfile, which runs up to the request of get
EstablishVerify ==
    /\ est.pc = "none"
    /\ accessToken' = CallerToken
    /\ refreshToken' = CallerRefreshToken
    /\ profile' = getCall(accessToken')
    /\ apiLog' = Append(apiLog, profile'.auth)
    /\ est' = EstState("verify", "verifying", Pending)
    /\ UNCHANGED <<refresh, bulkVars, serverVars, writes, notified,
                   onProfileCalls, userCalls>>
    /\ UNCHANGED pagedVars

\* the catch clause of verify, given the rejection r of fetchUserProfile:
\* error.response.status of an error without a response is a TypeError, a 401
\* response starts a refresh, anything else is thrown again
verifyCatch(r) ==
    IF r.isAxiosError /\ ~r.hasResponse THEN "TypeError"
    ELSE IF r.isAxiosError /\ r.status = 401 THEN "refresh"
    ELSE "rethrow"

\* verify resumes when its first request is answered (it awaits
\* fetchUserProfile inside the try block, so the catch clause does run)
VerifyAnswered ==
    /\ est.kind = "verify" /\ est.pc = "verifying"
    /\ profile.pc = "awaiting"
    /\ \E a \in ApiAnswers(profile.auth) :
         LET g == get(profile, a)
             r == fetchUserProfile(g.outcome) IN
         /\ profile' = [g EXCEPT !.result = r]
         /\ IF r.ok
            THEN /\ onProfileCalls' = onProfileCalls + 1
                 /\ est' = EstState("verify", "returned", r)
                 /\ UNCHANGED refresh
            ELSE /\ UNCHANGED onProfileCalls
                 /\ IF verifyCatch(r) = "refresh"
                    THEN /\ refresh' = RefreshSent("verify")
                         /\ est' = EstState("verify", "verify_refreshing", Pending)
                    ELSE /\ est' = EstState("verify", "failed",
                                   IF verifyCatch(r) = "TypeError"
                                   THEN Rejected("TypeError", FALSE, FALSE, 0)
                                   ELSE r)
                         /\ UNCHANGED refresh
    /\ UNCHANGED <<connVars, bulkVars, serverVars, apiLog, writes, notified,
                   userCalls>>
    /\ UNCHANGED pagedVars

\* the refresh of verify, when its request is answered with a
verifyRefresh(a) ==
    IF ~axios(a).ok THEN axios(a)
    ELSE IF a.status = 200 THEN Fulfilled(a.status)
    ELSE Rejected("status", FALSE, FALSE, a.status)

\* verify resumes when its refresh request is answered: on 200 it stores the
\* new token, calls onAccessTokenChange and fetches the profile again
VerifyRefreshed ==
    /\ est.kind = "verify" /\ est.pc = "verify_refreshing"
    /\ refresh.pc = "awaiting"
    /\ \E a \in RefreshAnswers :
         LET r == verifyRefresh(a) IN
         /\ RefreshServed(a)
         /\ refresh' = RefreshSettled(refresh, a, r)
         /\ IF r.ok
            THEN /\ accessToken' = a.data
                 /\ writes' = Append(writes, a.data)
                 /\ notified' = Append(notified, accessToken')
                 /\ profile' = getCall(accessToken')
                 /\ apiLog' = Append(apiLog, profile'.auth)
                 /\ est' = EstState("verify", "verify_retrying", Pending)
            ELSE /\ est' = EstState("verify", "failed", r)
                 /\ UNCHANGED <<accessToken, writes, notified, profile, apiLog>>
    /\ UNCHANGED <<refreshToken, bulkVars, refreshValid, healthy,
                   onProfileCalls, userCalls>>
    /\ UNCHANGED pagedVars

\* verify resumes when the second profile request is answered
VerifyRetried ==
    /\ est.kind = "verify" /\ est.pc = "verify_retrying"
    /\ profile.pc = "awaiting"
    /\ \E a \in ApiAnswers(profile.auth) :
         LET g == get(profile, a)
             r == fetchUserProfile(g.outcome) IN
         /\ profile' = [g EXCEPT !.result = r]
         /\ IF r.ok
            THEN /\ onProfileCalls' = onProfileCalls + 1
                 /\ est' = EstState("verify", "returned", r)
            ELSE /\ est' = EstState("verify", "failed", r)
                 /\ UNCHANGED onProfileCalls
    /\ UNCHANGED <<connVars, refresh, bulkVars, serverVars, apiLog, writes,
                   notified, userCalls>>
    /\ UNCHANGED pagedVars

(* ----------------- operations on a returned connection ----------------- *)
\* the caller calls fetchUserProfile, which runs up to the request of get
FetchUserProfile ==
    /\ est.pc = "returned"
    /\ profile.pc # "awaiting"
    /\ userCalls < MaxProfileCalls
    /\ userCalls' = userCalls + 1
    /\ profile' = getCall(accessToken)
    /\ apiLog' = Append(apiLog, profile'.auth)
    /\ UNCHANGED <<connVars, est, refresh, bulkVars, serverVars, writes,
                   notified, onProfileCalls>>
    /\ UNCHANGED pagedVars

\* the request of the caller's fetchUserProfile is answered
ProfileAnswered ==
    /\ est.pc = "returned"
    /\ profile.pc = "awaiting"
    /\ \E a \in ApiAnswers(profile.auth) :
         LET g == get(profile, a) IN
         profile' = [g EXCEPT !.result = fetchUserProfile(g.outcome)]
    /\ UNCHANGED <<connVars, est, refresh, bulkVars, serverVars, apiLog,
                   writes, notified, onProfileCalls, userCalls>>
    /\ UNCHANGED pagedVars

\* the caller calls the public tryRefresh, which runs up to its request
TryRefresh ==
    /\ est.pc = "returned" /\ est.kind # "verify"
    /\ refresh.pc # "awaiting"
    /\ issued < MaxRefreshes
    /\ refresh' = RefreshSent("caller")
    /\ UNCHANGED <<connVars, est, profile, bulkVars, serverVars, apiLog,
                   writes, notified, onProfileCalls, userCalls>>
    /\ UNCHANGED pagedVars

\* the request of the caller's tryRefresh is answered: a 200 replaces
\* _accessToken, anything else rejects and leaves it alone
Refreshed ==
    /\ est.pc = "returned"
    /\ refresh.pc = "awaiting"
    /\ \E a \in RefreshAnswers :
         LET r == tryRefresh(a) IN
         /\ RefreshServed(a)
         /\ refresh' = RefreshSettled(refresh, a, r)
         /\ IF r.ok
            THEN /\ accessToken' = a.data
                 /\ writes' = Append(writes, a.data)
            ELSE UNCHANGED <<accessToken, writes>>
    /\ UNCHANGED <<refreshToken, est, profile, bulkVars, refreshValid, healthy,
                   apiLog, notified, onProfileCalls, userCalls>>
    /\ UNCHANGED pagedVars

\* the remote API stops accepting an access token (it expires)
Expire ==
    /\ \E t \in validTokens : validTokens' = validTokens \ {t}
    /\ UNCHANGED <<connVars, est, profile, refresh, bulkVars, refreshValid,
                   healthy, issued, apiLog, writes, notified, onProfileCalls,
                   userCalls>>
    /\ UNCHANGED pagedVars

Next ==
    \/ Establish
    \/ Reestablish
    \/ ReestablishRefreshed
    \/ Verified
    \/ EstablishVerify
    \/ VerifyAnswered
    \/ VerifyRefreshed
    \/ VerifyRetried
    \/ FetchUserProfile
    \/ ProfileAnswered
    \/ TryRefresh
    \/ Refreshed
    \/ Expire

Spec == Init /\ [][Next]_vars

(* -------------------------- fetchAudioFeatures ------------------------- *)
\* the literal 100 of fetchAudioFeatures: the most IDs one request may carry
RemoteCap == 100

\* Math.ceil(a / b) for a >= 0, b > 0
Ceil(a, b) == (a + b - 1) \div b

\* the value of a division by zero; the bucket loop never reads it
NaN == <<"NaN">>

\* buckets filled up to the cap, the remainder in the last one
bucketSizeCapped(n) == IF n = 0 THEN NaN ELSE RemoteCap

\* const bucketSize = Math.ceil(ids.length / Math.ceil(ids.length / 100))
bucketSize(n) == IF n = 0 THEN NaN ELSE Ceil(n, Ceil(n, RemoteCap))

Min(a, b) == IF a < b THEN a ELSE b

\* a slice that stops one element early
sliceShort(ids, from, to) == SubSeq(ids, from + 1, Min(to, Len(ids)) - 1)

\* ids.slice(from, to): indices from..to-1 (0-based), cut at the end of ids
slice(ids, from, to) == SubSeq(ids, from + 1, Min(to, Len(ids)))

\* for (let i = 0; i < ids.length; i += bucketSize)
\*     buckets.push(ids.slice(i, i + bucketSize));
RECURSIVE splitFrom(_, _, _)
splitFrom(ids, i, size) ==
    IF ~(i < Len(ids)) THEN <<>>
    ELSE <<slice(ids, i, i + size)>> \o splitFrom(ids, i + size, size)

\* a loop that pushes its first bucket before testing i < ids.length
bucketsAtLeastOne(ids) ==
    IF Len(ids) = 0 THEN <<ids>> ELSE splitFrom(ids, 0, bucketSize(Len(ids)))

\* the buckets fetchAudioFeatures builds for ids
buckets(ids) == splitFrom(ids, 0, bucketSize(Len(ids)))

\* Array.prototype.flat on an array of arrays
RECURSIVE flat(_)
flat(arrays) ==
    IF Len(arrays) = 0 THEN <<>> ELSE Head(arrays) \o flat(Tail(arrays))

\* the audio features of one track, as the remote API describes it
AudioFeatures(id) == [id |-> id]

\* what the remote API may answer to GET /audio-features?ids=<bucket>: a 200
\* carries the features of the requested tracks, in the order requested
AudioAnswers(t, bucket) ==
    {IF a.response /\ a.status = 200
     THEN RespData(200, [j \in 1..Len(bucket) |-> AudioFeatures(bucket[j])])
     ELSE a : a \in ApiAnswers(t)}

\* fetchAudioFeaturesOfBucket without `if (result.status !== 200) throw`
fetchAudioFeaturesOfBucketUnchecked(o) == o

\* fetchAudioFeaturesOfBucket, after its get call has settled with outcome o
fetchAudioFeaturesOfBucket(o) ==
    IF ~o.ok THEN o
    ELSE IF o.status # 200 THEN Rejected("status", FALSE, FALSE, o.status)
    ELSE o

\* the values collected in the order the promises were fulfilled
PromiseAllByCompletion(calls, ord) ==
    [j \in 1..Len(calls) |-> calls[ord[j]].first.data]

\* the array Promise.all fulfils with: the value of each promise at the index
\* of that promise, whatever the order ord in which they were fulfilled
PromiseAll(calls, ord) == [i \in 1..Len(calls) |-> calls[i].first.data]

\* whether Promise.all rejects when one of its promises settles with r
PromiseAllRejects(r) == ~r.ok

\* the caller calls fetchAudioFeatures(ids): the buckets are built and every
\* fetchAudioFeaturesOfBucket runs up to the request of its get, all within
\* buckets.map, before Promise.all is awaited
FetchAudioFeaturesOf(lengths) ==
    /\ est.pc = "returned" /\ est.kind # "verify"
    /\ bulk.pc = "idle"
    /\ \E n \in lengths :
         LET ids == [j \in 1..n |-> j]
             bs == buckets(ids) IN
         /\ chunks' = [i \in 1..Len(bs) |-> getCall(accessToken)]
         /\ apiLog' = apiLog \o [i \in 1..Len(bs) |-> chunks'[i].auth]
         /\ bulk' = [pc |-> IF Len(bs) = 0 THEN "fulfilled" ELSE "pending",
                     ids |-> ids, buckets |-> bs, result |-> <<>>,
                     outcome |-> IF Len(bs) = 0 THEN Fulfilled(200) ELSE Pending]
    /\ order' = <<>>
    /\ UNCHANGED <<connVars, est, profile, refresh, serverVars, writes,
                   notified, onProfileCalls, userCalls>>
    /\ UNCHANGED pagedVars

\* fetchAudioFeatures called with an ID list of any length up to MaxIds
FetchAudioFeatures == FetchAudioFeaturesOf(0..MaxIds)

\* the request of bucket i is answered: its fetchAudioFeaturesOfBucket
\* settles; Promise.all rejects with the first rejection and fulfils when the
\* last promise is fulfilled, and fetchAudioFeatures returns the flattened
\* array
ChunkAnswered ==
    /\ bulk.pc # "idle"
    /\ \E i \in 1..Len(chunks) :
         /\ chunks[i].pc = "awaiting"
         /\ \E a \in AudioAnswers(chunks[i].auth, bulk.buckets[i]) :
              LET g == get(chunks[i], a)
                  r == fetchAudioFeaturesOfBucket(g.outcome) IN
              /\ chunks' = [chunks EXCEPT ![i] = [g EXCEPT !.result = r]]
              /\ order' = Append(order, i)
              /\ bulk' =
                    IF bulk.pc # "pending" THEN bulk
                    ELSE IF PromiseAllRejects(r)
                    THEN [bulk EXCEPT !.pc = "rejected", !.outcome = r]
                    ELSE IF \A k \in 1..Len(chunks) : chunks'[k].result.ok
                    THEN [bulk EXCEPT !.pc = "fulfilled",
                                      !.outcome = Fulfilled(200),
                                      !.result = flat(PromiseAll(chunks', order'))]
                    ELSE bulk
    /\ UNCHANGED <<connVars, est, profile, refresh, serverVars, apiLog, writes,
                   notified, onProfileCalls, userCalls>>
    /\ UNCHANGED pagedVars

\* a connection returned by establish, on which nothing has been called yet
InitBulk ==
    /\ accessToken = CallerToken
    /\ refreshToken = CallerRefreshToken
    /\ est = EstState("establish", "returned", Fulfilled(200))
    /\ profile = [get(getCall(CallerToken), Resp(200)) EXCEPT !.result = Fulfilled(200)]
    /\ refresh = NoRefresh
    /\ bulk = NoBulk
    /\ chunks = <<>>
    /\ order = <<>>
    /\ validTokens = {CallerToken}
    /\ refreshValid = TRUE
    /\ healthy \in BOOLEAN
    /\ issued = 0
    /\ apiLog = <<CallerToken>>
    /\ writes = <<>>
    /\ notified = <<>>
    /\ onProfileCalls = 1
    /\ userCalls = 0
    /\ paged = NoPaged
    /\ pageCalls = [c \in Callers |-> NoPageCall]
    /\ pageLog = <<>>
    /\ remoteTotal = 0
    /\ overlapped = FALSE

NextBulk ==
    \/ FetchAudioFeatures
    \/ ChunkAnswered
    \/ Expire

SpecBulk == InitBulk /\ [][NextBulk]_vars

\* fetchAudioFeatures (with the longest ID list, so several get calls) and
\* tryRefresh called on the same returned connection, their requests in
\* flight together and answered in any order
NextRace ==
    \/ FetchAudioFeaturesOf({MaxIds})
    \/ ChunkAnswered
    \/ TryRefresh
    \/ Refreshed
    \/ Expire

SpecRace == InitBulk /\ [][NextRace]_vars

(* ---------------------- fetchUserPlaylists / Paged --------------------- *)
(* classes/Paged is not among the source files: create, isExhausted,       *)
(* fetchNext and fetchAll follow section 4.3 of the specification, which   *)
(* also says that the container does nothing to keep two calls apart.  The *)
(* fetcher, the handlers that call the container and the connection under  *)
(* it follow the source.  The i-th playlist of the user is written i.  A   *)
(* page request is answered with a page, an error status or not at all.    *)

\* perPage = 50
DefaultPerPage == 50
\* the page sizes a caller asks for
PerPages == (1..MaxPerPage) \cup {DefaultPerPage}

\* SpotifyPage<T>: the total of the collection and the items of one page
SpotifyPage(total, items) == <<total, items>>
pageTotal(page) == page[1]
pageItems(page) == page[2]

\* the page of the remote collection at (limit, offset)
RemotePage(limit, offset) ==
    LET n == IF offset >= remoteTotal THEN 0 ELSE Min(limit, remoteTotal - offset)
    IN SpotifyPage(remoteTotal, [i \in 1..n |-> offset + i])

\* what the remote API may answer to a page request
PageAnswers(t, limit, offset) ==
    IF t \in validTokens
    THEN {RespData(200, RemotePage(limit, offset))} \cup Faults
    ELSE {Resp(401)} \cup Faults

\* a fetcher that leaves the offset out of the query
fetcherParamsNoOffset(limit, offset) == [limit |-> limit, offset |-> 0]

\* the query parameters of the request the fetcher hands to get
fetcherParams(limit, offset) == [limit |-> limit, offset |-> offset]

\* a fetcher that answers a failed request with an empty page
fetcherSwallows(g) ==
    IF g.outcome.ok
    THEN [ok |-> TRUE, page |-> g.first.data, error |-> g.outcome]
    ELSE [ok |-> TRUE, page |-> SpotifyPage(0, <<>>), error |-> g.outcome]

\* the fetcher, when its get call has settled as g: `(await this.get(...)).data`
\* is the body of the answer, and a rejection of get is its own rejection
fetcher(g) ==
    IF g.outcome.ok
    THEN [ok |-> TRUE, page |-> g.first.data, error |-> g.outcome]
    ELSE [ok |-> FALSE, page |-> SpotifyPage(0, <<>>), error |-> g.outcome]

\* Paged.create(pageSize, fetcher): nothing fetched yet, no request made
create(pageSize) ==
    [pc |-> "created", pageSize |-> pageSize, fetchedItems |-> <<>>,
     totalKnown |-> FALSE, total |-> 0, nextOffset |-> 0]

\* a container that never takes itself for exhausted
isExhaustedNever(p) == FALSE

\* isExhausted(): the total is known and nextOffset equals it
isExhausted(p) == p.totalKnown /\ p.nextOffset = p.total

\* fetchNext, on a page fetched successfully: appends the items, advances
\* nextOffset by their number and records the total
fetchNextStored(p, page) ==
    [p EXCEPT !.fetchedItems = @ \o pageItems(page),
              !.nextOffset = @ + Len(pageItems(page)),
              !.totalKnown = TRUE,
              !.total = pageTotal(page)]

\* fetchNext on an exhausted container: fails at once
Exhausted == Rejected("exhausted", FALSE, FALSE, 0)

\* a call of caller c that settles without a request
settlePage(c, op, o, items) ==
    pageCalls' = [pageCalls EXCEPT ![c] =
        [NoPageCall EXCEPT !.op = op,
                           !.pc = IF o.ok THEN "fulfilled" ELSE "rejected",
                           !.outcome = o,
                           !.returned = items]]

\* fetchNext up to its suspension, on container state p and request log log:
\* one request at (limit = pageSize, offset = nextOffset)
requestPage(c, op, p, log) ==
    LET q == fetcherParams(p.pageSize, p.nextOffset)
        g == getCall(accessToken)
    IN /\ Len(log) < MaxPageRequests
       /\ pageCalls' = [pageCalls EXCEPT ![c] =
              [op |-> op, pc |-> "awaiting", limit |-> q.limit,
               offset |-> q.offset, entry |-> Len(log) + 1, get |-> g,
               outcome |-> Pending, returned |-> <<>>]]
       /\ pageLog' = Append(log, [by |-> c, offset |-> q.offset,
                                  limit |-> q.limit, state |-> "pending",
                                  known |-> p.totalKnown, total |-> p.total])
       /\ apiLog' = Append(apiLog, g.auth)
       /\ overlapped' = (overlapped
                         \/ \E d \in Callers \ {c} : pageCalls[d].pc = "awaiting")

\* fetchUserPlaylists (fetchPlaylistTracks alike): builds the fetcher and
\* returns Paged.create(perPage, fetcher); no request is made
FetchUserPlaylists ==
    /\ est.pc = "returned"
    /\ paged.pc = "none"
    /\ \E perPage \in PerPages : paged' = create(perPage)
    /\ UNCHANGED <<connVars, est, profile, refresh, bulkVars, serverVars, apiLog,
                   writes, notified, onProfileCalls, userCalls, pageCalls,
                   pageLog, remoteTotal, overlapped>>

\* a handler calls fetchNext on the container it holds, as
\* handleImportPlaylists does
FetchNext(c) ==
    /\ paged.pc = "created"
    /\ pageCalls[c].pc # "awaiting"
    /\ IF isExhausted(paged)
       THEN /\ settlePage(c, "fetchNext", Exhausted, <<>>)
            /\ UNCHANGED <<pageLog, apiLog, overlapped>>
       ELSE requestPage(c, "fetchNext", paged, pageLog)
    /\ UNCHANGED <<connVars, est, profile, refresh, bulkVars, serverVars, writes,
                   notified, onProfileCalls, userCalls, paged, remoteTotal>>

\* handleFocus: every focus of the search field dispatches
\* loadAll(playlistContainer), whatever isLoading is; loadAll is fetchAll,
\* which calls fetchNext until nextOffset equals the total
HandleFocus(c) ==
    /\ paged.pc = "created"
    /\ pageCalls[c].pc # "awaiting"
    /\ IF isExhausted(paged)
       THEN /\ settlePage(c, "fetchAll", Fulfilled(200), paged.fetchedItems)
            /\ UNCHANGED <<pageLog, apiLog, overlapped>>
       ELSE requestPage(c, "fetchAll", paged, pageLog)
    /\ UNCHANGED <<connVars, est, profile, refresh, bulkVars, serverVars, writes,
                   notified, onProfileCalls, userCalls, paged, remoteTotal>>

\* the page request of caller c is answered: the fetcher settles as get does,
\* fetchNext stores the page or rejects with the fetcher's error, and fetchAll
\* goes on to the next page until the container is exhausted
PageAnswered(c) ==
    LET call == pageCalls[c] IN
    /\ call.pc = "awaiting"
    /\ \E a \in PageAnswers(call.get.auth, call.limit, call.offset) :
         LET g == get(call.get, a)
             f == fetcher(g)
             p == IF f.ok THEN fetchNextStored(paged, f.page) ELSE paged
             log == [pageLog EXCEPT ![call.entry].state =
                        IF g.outcome.ok THEN "ok" ELSE "failed"]
         IN /\ paged' = p
            /\ IF ~f.ok
               THEN /\ pageCalls' = [pageCalls EXCEPT ![c] =
                           [call EXCEPT !.pc = "rejected", !.get = g,
                                        !.outcome = f.error]]
                    /\ pageLog' = log
                    /\ UNCHANGED <<apiLog, overlapped>>
               ELSE IF call.op = "fetchNext" \/ isExhausted(p)
               THEN /\ pageCalls' = [pageCalls EXCEPT ![c] =
                           [call EXCEPT !.pc = "fulfilled", !.get = g,
                                        !.outcome = Fulfilled(200),
                                        !.returned =
                                            IF call.op = "fetchNext"
                                            THEN pageItems(f.page)
                                            ELSE p.fetchedItems]]
                    /\ pageLog' = log
                    /\ UNCHANGED <<apiLog, overlapped>>
               ELSE requestPage(c, "fetchAll", p, log)
    /\ UNCHANGED <<connVars, est, profile, refresh, bulkVars, serverVars, writes,
                   notified, onProfileCalls, userCalls, remoteTotal>>

\* a connection that establish has returned, and a user with some playlists
InitPaged ==
    /\ accessToken = CallerToken
    /\ refreshToken = CallerRefreshToken
    /\ est = EstState("establish", "returned", Fulfilled(200))
    /\ profile = [get(getCall(CallerToken), Resp(200)) EXCEPT !.result = Fulfilled(200)]
    /\ refresh = NoRefresh
    /\ bulk = NoBulk
    /\ chunks = <<>>
    /\ order = <<>>
    /\ validTokens = {CallerToken}
    /\ refreshValid = TRUE
    /\ healthy \in BOOLEAN
    /\ issued = 0
    /\ apiLog = <<CallerToken>>
    /\ writes = <<>>
    /\ notified = <<>>
    /\ onProfileCalls = 1
    /\ userCalls = 0
    /\ paged = NoPaged
    /\ pageCalls = [c \in Callers |-> NoPageCall]
    /\ pageLog = <<>>
    /\ remoteTotal \in 0..MaxTotal
    /\ overlapped = FALSE

NextPaged ==
    \/ FetchUserPlaylists
    \/ \E c \in Callers : FetchNext(c)
    \/ \E c \in Callers : HandleFocus(c)
    \/ \E c \in Callers : PageAnswered(c)
    \/ Expire

SpecPaged == InitPaged /\ [][NextPaged]_vars

(* ======================================================================= *)
(*                               properties                                *)
(* ======================================================================= *)
\* the get call of fetchUserProfile has settled, on a connection of
\* SpotifyConnection.ts
GetSettled ==
    /\ est.kind \in {"establish", "reestablish"}
    /\ profile.pc \in {"fulfilled", "rejected"}

\* C1: a get call whose first request is answered 401, while the refresh
\* endpoint accepts the refresh token and nothing else fails, refreshes
\* exactly once, sends exactly one retry and is fulfilled with the retry's
\* result, the new token being stored.
C1_StaleTokenGetRefreshesAndRetries ==
    (GetSettled /\ profile.first = Resp(401) /\ refreshValid /\ healthy)
        => /\ profile.pc = "fulfilled"
           /\ profile.refreshes = 1
           /\ profile.sent = 2
           /\ writes # <<>>
           /\ profile.auth = writes[Len(writes)]

\* C2: a get call never makes more than one refresh nor sends more than two
\* requests, and one that fails although its request was answered 401 (the
\* remote API went on answering 401) has made exactly one refresh attempt
\* before failing.
C2_FailedGetRefreshedOnce ==
    /\ profile.refreshes <= 1
    /\ profile.sent <= 2
    /\ (GetSettled /\ profile.first = Resp(401) /\ profile.pc = "rejected")
          => profile.refreshes = 1

\* C3: establish with an access token the remote API rejects and a refresh
\* token the refresh endpoint accepts (nothing else failing) ends by
\* returning the connection, after a refresh, with onGettingUserProfile
\* called.
C3_EstablishRecoversFromStaleToken ==
    (est.kind = "establish" /\ est.pc \notin {"none", "verifying"}
        /\ refreshValid /\ healthy)
        => /\ est.pc = "returned"
           /\ onProfileCalls = 1

\* C4: establish returns the connection only after the verification request
\* was answered 200 and onGettingUserProfile ran once; when verification
\* fails establish rejects with the error of the request (the AxiosError of
\* the answer, or the status thrown by fetchUserProfile), returns no
\* connection, and onGettingUserProfile is never called.
C4_EstablishReturnsOnlyWhenVerified ==
    est.kind = "establish" =>
        /\ est.pc = "returned" =>
              /\ est.outcome.ok /\ est.outcome.status = 200
              /\ onProfileCalls = 1
        /\ est.pc = "verifying" => onProfileCalls = 0
        /\ est.pc = "failed" =>
              /\ onProfileCalls = 0
              /\ ~est.outcome.ok
              /\ est.outcome.thrown \in {"AxiosError", "status"}
              /\ est.outcome.status = profile.first.status
              /\ profile.first # Resp(200)
              /\ userCalls = 0

C4_Witness ==
    /\ est.kind = "establish" /\ est.pc = "failed"
    /\ ~refreshValid
    /\ profile.first = Resp(401)
    /\ onProfileCalls = 0

\* C5: reestablish sends no request to the remote API until its refresh has
\* stored a new token; every request it sends carries that token, never the
\* empty placeholder; when the refresh is not answered 200 reestablish fails
\* with no request sent to the remote API and onGettingUserProfile not called.
C5_ReestablishRefreshesFirst ==
    est.kind = "reestablish" =>
        /\ est.pc = "refreshing" => apiLog = <<>> /\ writes = <<>>
        /\ apiLog # <<>> =>
              /\ writes # <<>>
              /\ apiLog[1] = writes[1]
              /\ writes[1] = IssuedToken(1)
        /\ \A i \in 1..Len(apiLog) : apiLog[i] # EmptyToken
        /\ (est.pc \in {"verifying", "failed"}
               /\ ~(refresh.answer.response /\ refresh.answer.status = 200)) =>
              /\ est.pc = "failed"
              /\ apiLog = <<>>
              /\ onProfileCalls = 0
              /\ accessToken = EmptyToken

C5_Witness ==
    /\ est.kind = "reestablish" /\ est.pc = "returned"
    /\ apiLog = <<IssuedToken(1)>>
    /\ accessToken = IssuedToken(1)
    /\ onProfileCalls = 1

\* C6: the onAccessTokenChange calls are exactly the replacements of the
\* stored token by a refresh: one call per replacement, carrying the token
\* written, and no call without a replacement.
C6_EveryTokenWriteIsNotified == notified = writes

\* length of the ID list and the number of buckets the spec computes for it
BulkN == Len(bulk.ids)
ChunkCount == Ceil(BulkN, RemoteCap)
BucketSizes == [i \in 1..Len(bulk.buckets) |-> Len(bulk.buckets[i])]

\* C7 as stated: n >= 1 IDs are split into ceil(n/100) chunks, each of size
\* floor(n/chunkCount) or ceil(n/chunkCount); 250 IDs give sizes {84, 83, 83}.
C7_ChunkSizesFloorOrCeil ==
    (bulk.pc # "idle" /\ BulkN >= 1) =>
        /\ Len(bulk.buckets) = ChunkCount
        /\ \A i \in 1..Len(bulk.buckets) :
              BucketSizes[i] \in {BulkN \div ChunkCount, Ceil(BulkN, ChunkCount)}
        /\ BulkN = 250 =>
              /\ Len(bulk.buckets) = 3
              /\ \E i \in 1..3 :
                    /\ BucketSizes[i] = 84
                    /\ \A k \in (1..3) \ {i} : BucketSizes[k] = 83

\* C7 as amended: n >= 1 IDs are split into ceil(n/100) chunks; every chunk
\* but the last has ceil(n/chunkCount) IDs and the last has the remaining
\* n - (chunkCount - 1) * ceil(n/chunkCount) IDs, at least one; 250 IDs give
\* sizes 84, 84, 82.
C7_ChunkSizesCeilThenRest ==
    (bulk.pc # "idle" /\ BulkN >= 1) =>
        /\ Len(bulk.buckets) = ChunkCount
        /\ \A i \in 1..(Len(bulk.buckets) - 1) :
              BucketSizes[i] = Ceil(BulkN, ChunkCount)
        /\ BucketSizes[Len(bulk.buckets)] =
              BulkN - (ChunkCount - 1) * Ceil(BulkN, ChunkCount)
        /\ BucketSizes[Len(bulk.buckets)] >= 1
        /\ BulkN = 250 => BucketSizes = <<84, 84, 82>>

C7_Witness ==
    /\ bulk.pc # "idle"
    /\ BulkN = 250
    /\ BucketSizes = <<84, 84, 82>>

\* C8: for n >= 1 the buckets are a contiguous partition of the ID list:
\* each is non-empty and holds at most 100 IDs, all but the last hold
\* chunkSize = ceil(n / ceil(n/100)) IDs, and the IDs of the buckets, read in
\* index order, are the input sequence (position p of the input is element
\* (p-1) mod chunkSize of bucket (p-1) div chunkSize, and nothing else is in
\* any bucket).
C8_BucketsPartitionIds ==
    (bulk.pc # "idle" /\ BulkN >= 1) =>
        LET size == Ceil(BulkN, Ceil(BulkN, RemoteCap)) IN
        /\ \A i \in 1..Len(bulk.buckets) :
              BucketSizes[i] >= 1 /\ BucketSizes[i] <= RemoteCap
        /\ \A i \in 1..(Len(bulk.buckets) - 1) : BucketSizes[i] = size
        /\ BucketSizes[Len(bulk.buckets)] <= size
        /\ Len(bulk.buckets) = Ceil(BulkN, size)
        /\ BucketSizes[Len(bulk.buckets)] = BulkN - (Len(bulk.buckets) - 1) * size
        /\ \A p \in 1..BulkN :
              bulk.buckets[((p - 1) \div size) + 1][((p - 1) % size) + 1] = bulk.ids[p]

C8_Witness ==
    /\ bulk.pc # "idle"
    /\ BulkN = 101
    /\ BucketSizes = <<51, 50>>
    /\ bulk.buckets[2][1] = bulk.ids[52]

\* the number of features answered for the buckets before bucket i
RECURSIVE AnsweredBefore(_)
AnsweredBefore(i) ==
    IF i <= 1 THEN 0 ELSE AnsweredBefore(i - 1) + Len(chunks[i - 1].first.data)

\* C9: every bucket's request is sent before any of them is answered, and
\* when fetchAudioFeatures is fulfilled its result is the audio_features
\* arrays of the answers laid end to end in bucket-index order, whatever the
\* order in which the answers arrived.
C9_ResultInBucketOrder ==
    /\ bulk.pc # "idle" =>
          /\ Len(chunks) = Len(bulk.buckets)
          /\ \A i \in 1..Len(chunks) : chunks[i].pc # "idle"
    /\ bulk.pc = "fulfilled" =>
          /\ Len(bulk.result) = AnsweredBefore(Len(chunks) + 1)
          /\ \A i \in 1..Len(chunks) :
                \A j \in 1..Len(chunks[i].first.data) :
                    bulk.result[AnsweredBefore(i) + j] = chunks[i].first.data[j]

C9_Witness ==
    /\ bulk.pc = "fulfilled"
    /\ order = <<3, 1, 2>>
    /\ Len(bulk.result) = 250
    /\ bulk.result[1] = AudioFeatures(1)
    /\ bulk.result[250] = AudioFeatures(250)

\* the request of bucket i was answered, and not with a 200
ChunkFailed(i) ==
    /\ chunks[i].pc \notin {"idle", "awaiting"}
    /\ ~(chunks[i].first.response /\ chunks[i].first.status = 200)

\* C10: once the request of any bucket has failed (a status other than 200,
\* or no response) fetchAudioFeatures is rejected and has no result; it is
\* fulfilled only when every bucket was answered 200, and then the result
\* holds the features of all n IDs.
C10_AnyChunkFailureFailsAll ==
    /\ (\E i \in 1..Len(chunks) : ChunkFailed(i)) =>
          /\ bulk.pc = "rejected"
          /\ bulk.result = <<>>
    /\ bulk.pc = "fulfilled" =>
          /\ \A i \in 1..Len(chunks) : chunks[i].first.status = 200
          /\ Len(bulk.result) = BulkN
    /\ bulk.pc \in {"pending", "rejected"} => bulk.result = <<>>

C10_Witness ==
    /\ bulk.pc = "rejected"
    /\ Len(chunks) = 3
    /\ ChunkFailed(2)
    /\ chunks[1].first.status = 200 /\ chunks[1].pc = "fulfilled"
    /\ chunks[3].first.status = 200 /\ chunks[3].pc = "fulfilled"
    /\ order = <<3, 2, 1>>

\* the answer a is a failure other than a 401 response
OtherFailure(a) ==
    /\ ~(a.response /\ a.status >= 200 /\ a.status < 300)
    /\ a # Resp(401)

\* C11: when the request of a get call fails for a reason other than a 401
\* answer (another non-2xx status, or no response at all), the step that
\* receives the failure rejects the call with that very failure (the
\* AxiosError carrying the status, or carrying no response), after one
\* request and no refresh, and leaves the stored token, the
\* onAccessTokenChange calls, the requests sent and the refresh request as
\* they were.
C11_OtherFailuresSurfaceUnchanged ==
    [][(/\ est.kind \in {"establish", "reestablish"}
        /\ profile.pc = "awaiting"
        /\ profile' # profile
        /\ OtherFailure(profile'.first))
       => /\ profile'.pc = "rejected"
          /\ profile'.outcome =
                Rejected("AxiosError", TRUE, profile'.first.response,
                         profile'.first.status)
          /\ profile'.sent = 1
          /\ profile'.refreshes = 0
          /\ profile'.auth = profile.auth
          /\ accessToken' = accessToken
          /\ writes' = writes
          /\ notified' = notified
          /\ apiLog' = apiLog
          /\ refresh' = refresh]_vars

C11_Witness ==
    /\ est.kind = "establish" /\ est.pc = "returned"
    /\ profile.pc = "rejected"
    /\ profile.first = Resp(500)
    /\ accessToken = CallerToken
    /\ notified = <<>>

\* the container holds the first playlists of the user, each once
HoldsPrefix(p) == p.fetchedItems = [i \in 1..p.nextOffset |-> i]

\* C12: whatever fetchNext calls are made on a container, it holds as many
\* items as nextOffset says; a step that stores a page advances nextOffset by
\* the number of items it appends (a short last page by less than pageSize)
\* and leaves the items held before in place; and for calls made one after
\* another nextOffset never exceeds the total once it is known.  (What calls
\* that overlap do to the container is the subject of C15.)
C12_PagedAccumulates ==
    [][paged'.pc = "created" =>
         /\ Len(paged'.fetchedItems) = paged'.nextOffset
         /\ (~overlapped' /\ paged'.totalKnown)
                => paged'.nextOffset <= paged'.total
         /\ paged.pc = "created" =>
               /\ Len(paged'.fetchedItems) >= Len(paged.fetchedItems)
               /\ paged'.nextOffset - paged.nextOffset
                      = Len(paged'.fetchedItems) - Len(paged.fetchedItems)
               /\ SubSeq(paged'.fetchedItems, 1, Len(paged.fetchedItems))
                      = paged.fetchedItems]_vars

C12_Witness ==
    /\ ~overlapped
    /\ paged.pageSize = 2
    /\ paged.totalKnown /\ paged.total = 3
    /\ Len(pageLog) = 2
    /\ pageLog[1].state = "ok" /\ pageLog[1].offset = 0
    /\ pageLog[2].state = "ok" /\ pageLog[2].offset = 2
    /\ paged.nextOffset = 3
    /\ paged.fetchedItems = <<1, 2, 3>>

\* C13: a step in which the page request of a fetchNext (or of the fetchNext
\* inside fetchAll) fails leaves fetchedItems, nextOffset and total as they
\* were, rejects the call with the error of get and sends nothing; a request
\* that follows a failed one asks for the same offset, and the container
\* holds every playlist once (calls that do not overlap).
C13_FailedFetchNextChangesNothing ==
    [][/\ \A c \in Callers :
            (pageCalls[c].pc = "awaiting" /\ pageCalls'[c].get.pc = "rejected")
                => /\ paged' = paged
                   /\ pageCalls'[c].pc = "rejected"
                   /\ pageCalls'[c].outcome = pageCalls'[c].get.outcome
                   /\ pageCalls'[c].outcome = axios(pageCalls'[c].get.first)
                   /\ Len(pageLog') = Len(pageLog)
                   /\ pageLog'[pageCalls[c].entry].state = "failed"
                   /\ apiLog' = apiLog
       /\ ~overlapped' =>
            /\ HoldsPrefix(paged')
            /\ \A i \in 1..(Len(pageLog') - 1) :
                  pageLog'[i].state = "failed"
                      => pageLog'[i + 1].offset = pageLog'[i].offset]_vars

C13_Witness ==
    /\ ~overlapped
    /\ \E i \in 1..(Len(pageLog) - 1) :
          /\ pageLog[i].state = "failed"
          /\ pageLog[i + 1].state = "ok"
          /\ pageLog[i].offset > 0
          /\ pageLog[i + 1].offset = pageLog[i].offset
    /\ paged.nextOffset = remoteTotal
    /\ HoldsPrefix(paged)
    /\ \E c \in Callers : pageCalls[c].pc = "rejected" /\ pageCalls[c].get.first = Resp(500)

C15_PageFetchesSerialized ==
    /\ Cardinality({c \in Callers : pageCalls[c].pc = "awaiting"}) <= 1
    /\ \A i, j \in 1..Len(pageLog) :
          (i < j /\ pageLog[i].state # "failed" /\ pageLog[j].state # "failed")
              => pageLog[i].offset # pageLog[j].offset
    /\ \A i, j \in 1..Len(paged.fetchedItems) :
          i # j => paged.fetchedItems[i] # paged.fetchedItems[j]

\* C16: a get call whose request is answered 401 while the refresh endpoint
\* rejects the refresh token (and nothing else fails) makes one refresh
\* attempt and is rejected with the failure of that refresh (the status of
\* the refresh endpoint), having sent no second request; no token was
\* written and onAccessTokenChange was not called.
C16_FailedRefreshFailsGet ==
    (GetSettled /\ profile.first = Resp(401) /\ ~refreshValid /\ healthy)
        => /\ profile.pc = "rejected"
           /\ profile.refreshes = 1
           /\ profile.sent = 1
           /\ profile.outcome.status = 400
           /\ writes = <<>>
           /\ notified = <<>>

\* the tokens the stored token may hold on a connection made by establish:
\* the one it was created with and those handed out by the refresh endpoint
WholeTokens == {CallerToken} \cup {IssuedToken(k) : k \in 1..issued}

C18_TokenNeverEmptyOnceReturned ==
    est.pc = "returned" =>
        /\ accessToken # EmptyToken
        /\ Len(accessToken) > 0
        /\ accessToken # Undefined

C18_Witness ==
    /\ est.kind = "reestablish" /\ est.pc = "returned"
    /\ accessToken = IssuedToken(2)
    /\ refresh.by = "caller" /\ refresh.pc = "fulfilled"

\* C19: once the connection is constructed no step changes refreshToken,
\* which stays the token the caller supplied, and every request a step sends
\* to the remote API carries the stored access token, never the refresh
\* token.
C19_RefreshTokenFixedAndPrivate ==
    [][/\ est.pc # "none" => refreshToken' = refreshToken
       /\ est'.pc # "none" => refreshToken' = CallerRefreshToken
       /\ Len(apiLog') >= Len(apiLog)
       /\ \A i \in 1..Len(apiLog') :
             /\ apiLog'[i] # refreshToken'
             /\ i > Len(apiLog) => apiLog'[i] = accessToken']_vars

C19_Witness ==
    /\ est.pc = "returned"
    /\ refreshToken = CallerRefreshToken
    /\ refresh.pc = "fulfilled" /\ refresh.by = "caller"
    /\ Len(apiLog) = 3
    /\ apiLog[3] = IssuedToken(2)

\* C20: fetchAudioFeatures called with no IDs builds no bucket, sends no
\* request, makes no refresh and is fulfilled with the empty sequence.
C20_NoIdsNoRequest ==
    (bulk.pc # "idle" /\ BulkN = 0) =>
        /\ bulk.buckets = <<>>
        /\ chunks = <<>>
        /\ order = <<>>
        /\ bulk.pc = "fulfilled"
        /\ bulk.outcome.ok
        /\ bulk.result = <<>>
        /\ apiLog = <<CallerToken>>
        /\ refresh = NoRefresh
        /\ writes = <<>>

C20_Witness ==
    /\ bulk.pc = "fulfilled"
    /\ BulkN = 0
    /\ chunks = <<>>
    /\ bulk.result = <<>>

====
